---- MODULE Spec2Model ----
(***************************************************************************)
(* A model of the symbolic algebra core of sym_tfg (src/src/polynomial.rs): *)
(* Variable / Term / Polynomial / PolyRatio, their canonicalization,        *)
(* arithmetic, long division, factoring and root extraction.               *)
(*                                                                         *)
(* Representation                                                          *)
(*   Rational64   <<n, d>> in lowest terms with d > 0 (num::Ratio keeps    *)
(*                every value reduced, so = is Rational64's ==)            *)
(*   Variable     [name |-> k, degree |-> rational]; a name is modelled by *)
(*                its rank in String order (1 = "x", 2 = "y", 3 = "z"),    *)
(*                so that String::cmp is <= on ranks                       *)
(*   Term         [coefficient |-> rational, variables |-> Seq(Variable)]  *)
(*   Polynomial   [terms |-> Seq(Term), degree |-> rational]               *)
(*   PolyRatio    [numerator |-> Polynomial, denominator |-> Polynomial]   *)
(*                                                                         *)
(* i64 overflow is out of reach of the bounded inputs and is not modelled. *)
(* The f64 round trips of Term::pow are modelled by their exact results    *)
(* where the f64 computation is exact; see pow below.                      *)
(***************************************************************************)
EXTENDS Integers, Sequences, FiniteSets, TLC

VARIABLES
    pc,          \* the operation applied and how far it has got
    p, q, r,     \* the operands
    prev,        \* the value before the last re-simplification
    out,         \* the value the operation returned
    quotient, remainder, divisor, iter,   \* the locals of Polynomial / Polynomial
    loc          \* the locals of roots()

vars == <<pc, p, q, r, prev, out, quotient, remainder, divisor, iter, loc>>

----------------------------------------------------------------------------
(* Evaluation: TLC may evaluate a LET definition or an operator argument    *)
(* once per use.  Let binds a value instead, so every operator below that  *)
(* reads an argument more than once first binds it.                        *)

Only(S) == CHOOSE x \in S : TRUE
Let(v, F(_)) == Only({F(x) : x \in {v}})
Let2(v, w, F(_, _)) == Only({F(x, y) : x \in {v}, y \in {w}})

----------------------------------------------------------------------------
(* Rational64 *)

Abs(x) == IF x < 0 THEN -x ELSE x

RECURSIVE gcd(_, _)
gcd(a, b) == IF b = 0 THEN Abs(a) ELSE gcd(b, a % b)

lcm(a, b) == IF a = 0 \/ b = 0 THEN 0 ELSE Abs(a * b) \div gcd(a, b)

\* The sign that makes the denominator d positive.
Sign(d) == IF d < 0 THEN -1 ELSE 1

\* Rational64::new(n, d), d # 0: reduced, sign carried by the numerator.
Rat(n, d) ==
    Let(gcd(Abs(n), Abs(d)), LAMBDA g : <<(Sign(d) * n) \div g, Abs(d) \div g>>)

RInt(n) == <<n, 1>>

RAdd(a, b) == Rat(a[1] * b[2] + b[1] * a[2], a[2] * b[2])
RMul(a, b) == Rat(a[1] * b[1], a[2] * b[2])
RNeg(a) == <<-a[1], a[2]>>
\* Rational64 division; the caller guards b # 0 (num panics on a zero divisor).
RDiv(a, b) == Rat(a[1] * b[2], a[2] * b[1])
RLt(a, b) == a[1] * b[2] < b[1] * a[2]
RLe(a, b) == a[1] * b[2] <= b[1] * a[2]
RMin(a, b) == IF RLe(a, b) THEN a ELSE b
RMax(a, b) == IF RLt(a, b) THEN b ELSE a
RIsInt(a) == a[2] = 1

RECURSIVE IntPow(_, _)
IntPow(b, e) == IF e = 0 THEN 1 ELSE b * IntPow(b, e - 1)

\* The exact k-th root of n >= 0 when it is an integer, else -1.
IRoot(n, k) ==
    Let({m \in 0..n : IntPow(m, k) = n}, LAMBDA S :
        IF S = {} THEN -1 ELSE Only(S))

\* The fold of a sequence from the left: f(..f(f(e, s[1]), s[2]).., s[n]).
RECURSIVE FoldLeft(_, _, _)
FoldLeft(f(_, _), e, s0) ==
    Let(s0, LAMBDA s :
        IF s = <<>> THEN e
        ELSE Let(FoldLeft(f, e, SubSeq(s, 1, Len(s) - 1)), LAMBDA acc :
                 f(acc, s[Len(s)])))

----------------------------------------------------------------------------
(* Term *)

Degrees(vs) == [i \in 1..Len(vs) |-> vs[i].degree]

\* Term::max_degree: Iterator::max over the degrees, 0 on the empty list.
max_degree(t0) ==
    Let(t0.variables, LAMBDA vs :
        IF vs = <<>> THEN RInt(0)
        ELSE FoldLeft(RMax, vs[1].degree, Degrees(vs)))

\* One step of the stable sort: v goes after every element whose name is <= its own.
InsertVar(s0, v0) ==
    Let2(s0, v0, LAMBDA s, v :
        Let(Cardinality({i \in 1..Len(s) : s[i].name <= v.name}), LAMBDA k :
            SubSeq(s, 1, k) \o <<v>> \o SubSeq(s, k + 1, Len(s))))

\* slice::sort_by is stable: equal elements keep their order.
SortVarsSeq(vs) == FoldLeft(InsertVar, <<>>, vs)

\* Term::sort_vars
sort_vars(t0) == Let(t0, LAMBDA t : [t EXCEPT !.variables = SortVarsSeq(t.variables)])

\* The variable pushed whatever new_vars holds: Term::factor without its
\* search for the name.
PushVar(new_vars0, v0) == Append(new_vars0, v0)

\* The loop body of Term::factor: the variable is added to the first entry of
\* new_vars with its name, or pushed.
MergeVar(new_vars0, v0) ==
    Let2(new_vars0, v0, LAMBDA new_vars, v :
        Let({i \in 1..Len(new_vars) : new_vars[i].name = v.name}, LAMBDA I :
            IF I = {} THEN Append(new_vars, v)
            ELSE Let(CHOOSE i \in I : \A j \in I : i <= j, LAMBDA i :
                     [new_vars EXCEPT ![i].degree = RAdd(@, v.degree)])))

\* Term::factor
Term_factor(t0) ==
    Let(t0, LAMBDA t :
        [t EXCEPT !.variables =
            SelectSeq(FoldLeft(MergeVar, <<>>, t.variables),
                      LAMBDA v : v.degree # RInt(0))])

NegateDegrees(vs0) ==
    Let(vs0, LAMBDA vs : [i \in 1..Len(vs) |-> [vs[i] EXCEPT !.degree = RNeg(@)]])

\* Rational64::new(denom, numer) panics on a zero coefficient.
InvertPanics(t) == t.coefficient[1] = 0

\* Term::invert
invert(t0) ==
    Let(t0, LAMBDA t :
        [coefficient |-> Rat(t.coefficient[2], t.coefficient[1]),
         variables |-> NegateDegrees(t.variables)])

(***************************************************************************)
(* Term::pow computes coefficient.to_f64().powf(q.to_f64()) and converts   *)
(* it back with Rational64::from_f64(..).unwrap().                          *)
(*   PowPanics   the f64 result is NaN (negative base, fractional q) or    *)
(*               infinite (0 to a negative power): from_f64 is None and    *)
(*               unwrap panics                                             *)
(*   PowExact    the real result is rational, and then it is what the f64  *)
(*               round trip returns for the small values of the model      *)
(*   otherwise   the result is irrational and from_f64 returns a fraction  *)
(*               with denominator # 1                                      *)
(***************************************************************************)
PowPanics(c0, e0) ==
    Let2(c0, e0, LAMBDA c, e :
        \/ c[1] < 0 /\ e[2] # 1
        \/ c[1] = 0 /\ e[1] < 0)

\* c to the integer power n, c # 0 when n < 0.
RIntPow(c0, n0) ==
    Let2(c0, n0, LAMBDA c, n :
        IF n >= 0 THEN Rat(IntPow(c[1], n), IntPow(c[2], n))
        ELSE Rat(IntPow(c[2], -n), IntPow(c[1], -n)))

PowExact(c0, e0) ==
    Let2(c0, e0, LAMBDA c, e :
        \/ e[2] = 1
        \/ c[1] >= 0 /\ IRoot(c[1], e[2]) >= 0 /\ IRoot(c[2], e[2]) >= 0)

\* The exact value of c^e when PowExact(c, e) and ~PowPanics(c, e).
RPow(c0, e0) ==
    Let2(c0, e0, LAMBDA c, e :
        IF e[2] = 1 THEN RIntPow(c, e[1])
        ELSE RIntPow(<<IRoot(c[1], e[2]), IRoot(c[2], e[2])>>, e[1]))

\* A fractional coefficient raised to an irrational value: the result is a
\* lossy approximation, which the model does not compute.
PowLossy(c0, e0) ==
    Let2(c0, e0, LAMBDA c, e : ~PowPanics(c, e) /\ ~PowExact(c, e) /\ ~RIsInt(c))

\* Term::pow
pow(t0, e0) ==
    Let2(t0, e0, LAMBDA t, e :
        IF RIsInt(t.coefficient)
           /\ (~PowExact(t.coefficient, e) \/ ~RIsInt(RPow(t.coefficient, e)))
        THEN t
        ELSE [coefficient |-> RPow(t.coefficient, e),
              variables |-> [i \in 1..Len(t.variables) |->
                               [t.variables[i] EXCEPT !.degree = RMul(@, e)]]])

\* The derived Ord of Variable (name, then degree): -1, 0, 1 for Less, Equal,
\* Greater.
VarCmp(a0, b0) ==
    Let2(a0, b0, LAMBDA a, b :
        IF a.name < b.name THEN -1
        ELSE IF a.name > b.name THEN 1
        ELSE IF RLt(a.degree, b.degree) THEN -1
        ELSE IF RLt(b.degree, a.degree) THEN 1
        ELSE 0)

\* Vec<Variable>::cmp: the first differing position decides, then the length.
VarsCmp(a0, b0) ==
    Let2(a0, b0, LAMBDA a, b :
        Let({i \in 1..Len(a) : i <= Len(b) /\ VarCmp(a[i], b[i]) # 0}, LAMBDA D :
            IF D # {} THEN VarCmp(a[CHOOSE i \in D : \A j \in D : i <= j],
                                  b[CHOOSE i \in D : \A j \in D : i <= j])
            ELSE IF Len(a) < Len(b) THEN -1
            ELSE IF Len(a) > Len(b) THEN 1
            ELSE 0))

\* impl PartialEq for Term: both sides' variables are sorted by name first.
TermEq(a0, b0) ==
    Let2(a0, b0, LAMBDA a, b :
        /\ a.coefficient = b.coefficient
        /\ SortVarsSeq(a.variables) = SortVarsSeq(b.variables))

----------------------------------------------------------------------------
(* Polynomial *)

One == RInt(1)

Poly(ts) == [terms |-> ts, degree |-> One]

Const(c) == [coefficient |-> c, variables |-> <<>>]

MaxDegrees(ts) == [i \in 1..Len(ts) |-> max_degree(ts[i])]

\* Polynomial::degree(): the greatest max_degree of a term, 0 without terms.
degree(a0) ==
    Let(MaxDegrees(a0.terms), LAMBDA ds :
        IF ds = <<>> THEN RInt(0) ELSE FoldLeft(RMax, ds[1], ds))

\* The loop body of leading_term: a term replaces the candidate when its
\* max_degree is >= the greatest seen so far.
LeadingStep(acc0, t0) ==
    Let2(acc0, t0, LAMBDA acc, t :
        Let(max_degree(t), LAMBDA d :
            IF RLe(acc.max_degree, d)
            THEN [max_degree |-> d, leading_term |-> t]
            ELSE acc))

\* Polynomial::leading_term
leading_term(a0) ==
    FoldLeft(LeadingStep,
             [max_degree |-> RInt(0), leading_term |-> Const(RInt(0))],
             a0.terms).leading_term

\* The comparator without the degrees: Vec<Variable>::cmp alone.
CmpVariables(a0, b0) == VarsCmp(a0.variables, b0.variables)

\* The comparator of sort_terms: descending max degree, then Vec<Variable>::cmp.
TermCmp(a0, b0) ==
    Let2(a0, b0, LAMBDA a, b :
        Let2(max_degree(a), max_degree(b), LAMBDA da, db :
            IF RLt(db, da) THEN -1
            ELSE IF RLt(da, db) THEN 1
            ELSE VarsCmp(a.variables, b.variables)))

\* The term left where it was pushed: the term list without sort_terms.
PushTerm(s0, t0) == Append(s0, t0)

\* One step of the stable sort: t goes after every element not greater than it.
InsertTerm(s0, t0) ==
    Let2(s0, t0, LAMBDA s, t :
        Let(Cardinality({i \in 1..Len(s) : TermCmp(s[i], t) <= 0}), LAMBDA k :
            SubSeq(s, 1, k) \o <<t>> \o SubSeq(s, k + 1, Len(s))))

\* The terms in the order they were pushed: simplify without sort_terms.
KeepTerms(ts) == ts

\* Polynomial::sort_terms; slice::sort_by is stable.
sort_terms(ts) == FoldLeft(InsertTerm, <<>>, ts)

\* The loop body of add_like_terms: the coefficient is added to the first
\* entry of new_terms with the same variable list, or the term is pushed.
MergeTerm(new_terms0, t0) ==
    Let2(new_terms0, t0, LAMBDA new_terms, t :
        Let({i \in 1..Len(new_terms) : new_terms[i].variables = t.variables}, LAMBDA I :
            IF I = {} THEN Append(new_terms, t)
            ELSE Let(CHOOSE i \in I : \A j \in I : i <= j, LAMBDA i :
                     [new_terms EXCEPT ![i].coefficient = RAdd(@, t.coefficient)])))

\* Polynomial::add_like_terms
add_like_terms(ts) == FoldLeft(MergeTerm, <<>>, ts)

\* for term in terms { term.sort_vars() }; for term in terms { term.factor() }
FactorEach(ts0) ==
    Let(ts0, LAMBDA ts : [i \in 1..Len(ts) |-> Term_factor(sort_vars(ts[i]))])

\* Every term kept: simplify without its retain and its push of the zero term.
RetainAll(ts0) == ts0

\* retain the nonzero terms; push the zero constant when none is left.
RetainNonZero(ts0) ==
    Let(SelectSeq(ts0, LAMBDA t : t.coefficient # RInt(0)), LAMBDA kept :
        IF kept = <<>> THEN <<Const(RInt(0))>> ELSE kept)

\* simplify after the outer power: sort and factor each term, add like terms,
\* drop the zero terms, sort the terms.
Canonicalize(ts) == sort_terms(RetainNonZero(add_like_terms(FactorEach(ts))))

\* The cross product of Mul, before product.simplify().
CrossTerms(a0, b0) ==
    Let2(a0.terms, b0.terms, LAMBDA s, t :
        [k \in 1..(Len(s) * Len(t)) |->
            Let2(s[((k - 1) \div Len(t)) + 1], t[((k - 1) % Len(t)) + 1],
                 LAMBDA term1, term2 :
                    Term_factor(sort_vars(
                        [coefficient |-> RMul(term1.coefficient, term2.coefficient),
                         variables |-> term1.variables \o term2.variables])))])

RECURSIVE simplify(_)

\* impl Mul for Polynomial
PolyMul(a, b) == simplify(Poly(CrossTerms(a, b)))

\* for _i in 1..d { *self = self.clone() * self.clone(); }
RECURSIVE SelfMul(_, _)
SelfMul(a0, n0) ==
    Let2(a0, n0, LAMBDA a, n : IF n <= 0 THEN a ELSE SelfMul(PolyMul(a, a), n - 1))

\* simplify panics when the single term's power is NaN or infinite.
SimplifyPanics(a0) ==
    Let(a0, LAMBDA a :
        Len(a.terms) = 1 /\ PowPanics(a.terms[1].coefficient, a.degree))

SimplifyLossy(a0) ==
    Let(a0, LAMBDA a :
        Len(a.terms) = 1 /\ PowLossy(a.terms[1].coefficient, a.degree))

\* The outer power of simplify; the degree field is written only by the
\* assignment *self = self * self of the loop.
Powered(a0) ==
    Let(a0, LAMBDA a :
        IF Len(a.terms) = 1
        THEN [a EXCEPT !.terms = <<pow(a.terms[1], a.degree)>>]
        ELSE IF a.degree[2] = 1 /\ a.degree[1] >= 2
        THEN SelfMul(a, a.degree[1] - 1)
        ELSE a)

\* Polynomial::simplify
simplify(a0) ==
    Let(Powered(a0), LAMBDA a : [a EXCEPT !.terms = Canonicalize(a.terms)])

\* impl Add for Polynomial
PolyAdd(a, b) == simplify(Poly(a.terms \o b.terms))

\* for term in &mut other.terms { term.coefficient *= -1 }
Negated(b0) ==
    Let(b0, LAMBDA b :
        [b EXCEPT !.terms = [i \in 1..Len(b.terms) |->
                               [b.terms[i] EXCEPT !.coefficient = RNeg(@)]]])

\* impl Sub for Polynomial
PolySub(a, b) == PolyAdd(a, Negated(b))

\* Vec<Term> == Vec<Term>, with Term's PartialEq.
TermsEq(s0, t0) ==
    Let2(s0, t0, LAMBDA s, t :
        /\ Len(s) = Len(t)
        /\ \A i \in 1..Len(s) : TermEq(s[i], t[i]))

\* impl PartialEq for Polynomial: the simplified copies are built and then
\* the stored term lists are compared.
PolyEq(a, b) == TermsEq(a.terms, b.terms)

\* The index of the last binding of the name, 0 when there is none.
FindLast(values0, name0) ==
    Let2(values0, name0, LAMBDA values, name :
        Let({i \in 1..Len(values) : values[i][1] = name}, LAMBDA I :
            IF I = {} THEN 0 ELSE CHOOSE i \in I : \A j \in I : j <= i))

\* values.iter().find(|(name, _)| name == &var.name): the index of the first
\* binding of the name, 0 when there is none.  A binding is <<name, value>>.
FindBinding(values0, name0) ==
    Let2(values0, name0, LAMBDA values, name :
        Let({i \in 1..Len(values) : values[i][1] = name}, LAMBDA I :
            IF I = {} THEN 0 ELSE CHOOSE i \in I : \A j \in I : i <= j))

\* The inner loop body of evaluate: a bound variable multiplies the coefficient
\* by value^degree and gets the degree 0.
BindVar(values0, new_term0, k0) ==
    Let2(new_term0, k0, LAMBDA new_term, k :
        Let(FindBinding(values0, new_term.variables[k].name), LAMBDA i :
            IF i = 0 THEN new_term
            ELSE [coefficient |->
                    RMul(new_term.coefficient,
                         RPow(values0[i][2], new_term.variables[k].degree)),
                  variables |-> [new_term.variables EXCEPT ![k].degree = RInt(0)]]))

\* new_term after the loop over its variables.
RECURSIVE BindVars(_, _, _)
BindVars(values, new_term0, k0) ==
    Let2(new_term0, k0, LAMBDA new_term, k :
        IF k > Len(new_term.variables) THEN new_term
        ELSE BindVars(values, BindVar(values, new_term, k), k + 1))

\* The powers value.powf(expon) that evaluate computes: the bound variables.
BoundPowers(a0, values0) ==
    Let2(a0.terms, values0, LAMBDA ts, values :
        UNION {{<<values[FindBinding(values, ts[i].variables[j].name)][2],
                  ts[i].variables[j].degree>> :
                    j \in {k \in 1..Len(ts[i].variables) :
                             FindBinding(values, ts[i].variables[k].name) # 0}} :
               i \in 1..Len(ts)})

\* Rational64::from_f64(value.powf(expon)).unwrap() panics on NaN and infinity.
EvaluatePanics(a, values) ==
    \E ce \in BoundPowers(a, values) : PowPanics(ce[1], ce[2])

\* An irrational power: from_f64 returns an approximation, which the model
\* does not compute.
EvaluateLossy(a, values) ==
    \E ce \in BoundPowers(a, values) : ~PowExact(ce[1], ce[2])

\* Polynomial::evaluate: result has the degree 1 whatever self.degree is.
evaluate(a0, values0) ==
    Let2(a0.terms, values0, LAMBDA ts, values :
        simplify(Poly([i \in 1..Len(ts) |-> BindVars(values, ts[i], 1)])))

\* Display of Rational64: "n", or "n/d" when the denominator is not 1.
RatString(c) ==
    IF c[2] = 1 THEN ToString(c[1]) ELSE ToString(c[1]) \o "/" \o ToString(c[2])

\* The String whose rank in String order is k.
NameString(k) ==
    CASE k = -2 -> "a" [] k = -1 -> "b" [] k = 0 -> "c"
      [] k = 1 -> "x" [] k = 2 -> "y" [] k = 3 -> "z"

Concat(s, t) == s \o t

\* as_string: the name, and ^(degree) when the degree is not 1.
VarString(v) ==
    NameString(v.name)
      \o (IF v.degree # One THEN "^(" \o RatString(v.degree) \o ")" ELSE "")

\* as_string: what the loop pushes for the term at index i of n terms.
TermString(t, i, n) ==
    IF t.coefficient = RInt(0) /\ n > 1 THEN ""
    ELSE (IF i # 0 /\ RLt(RInt(0), t.coefficient) THEN "+" ELSE "")
           \o (IF t.variables = <<>> \/ t.coefficient # One
               THEN RatString(t.coefficient) ELSE "")
           \o FoldLeft(Concat, "",
                       [j \in 1..Len(t.variables) |-> VarString(t.variables[j])])

\* Polynomial::as_string
as_string(a0) ==
    Let(a0, LAMBDA a :
        Let(FoldLeft(Concat, "",
                     [i \in 1..Len(a.terms) |->
                        TermString(a.terms[i], i - 1, Len(a.terms))]),
            LAMBDA result :
                IF a.degree # One
                THEN "(" \o result \o ")^(" \o RatString(a.degree) \o ")"
                ELSE result))

Denoms(ts0) == Let(ts0, LAMBDA ts : [i \in 1..Len(ts) |-> ts[i].coefficient[2]])

ScaleTerms(ts0, c0) ==
    Let2(ts0, c0, LAMBDA ts, c :
        [i \in 1..Len(ts) |-> [ts[i] EXCEPT !.coefficient = RMul(@, c)]])

\* make_integer: the scalar it returns, and the polynomial it leaves.
make_integer_lcm(a) == FoldLeft(lcm, 1, Denoms(a.terms))

make_integer(a0) ==
    Let(a0, LAMBDA a :
        [a EXCEPT !.terms = ScaleTerms(a.terms, RInt(make_integer_lcm(a)))])

AbsNumers(ts0) ==
    Let(ts0, LAMBDA ts : [i \in 1..Len(ts) |-> Abs(ts[i].coefficient[1])])

\* let mut gcd = terms[0].numer.abs(); for term in terms { gcd = gcd(gcd, ..) }
CoefGcd(a0) ==
    Let(AbsNumers(a0.terms), LAMBDA ns : FoldLeft(gcd, ns[1], ns))

VarNames(t) == {t.variables[i].name : i \in 1..Len(t.variables)}

\* seen_vars after the loop: the names of the first term, in its order, that
\* occur in every term. The loop returns as soon as the list is empty.
CommonVars(a0) ==
    Let(a0.terms, LAMBDA ts :
        SelectSeq([i \in 1..Len(ts[1].variables) |-> ts[1].variables[i].name],
                  LAMBDA x : \A j \in 1..Len(ts) : x \in VarNames(ts[j])))

\* Every variable of every term, in storage order.
AllVars(ts0) ==
    Let(ts0, LAMBDA ts :
        FoldLeft(Concat, <<>>, [i \in 1..Len(ts) |-> ts[i].variables]))

\* if var.degree < min_degree && var.degree > 0 { min_degree = var.degree }
MinPositive(min0, v0) ==
    Let2(min0, v0, LAMBDA min, v :
        IF RLt(v.degree, min) /\ RLt(RInt(0), v.degree) THEN v.degree ELSE min)

\* The smallest power factor() takes for the common variable: it starts from
\* the first variable of the first term and scans every variable of every term.
FactorMinDegree(pi0) ==
    Let(pi0.terms, LAMBDA ts :
        FoldLeft(MinPositive, ts[1].variables[1].degree, AllVars(ts)))

\* A call that panicked returns nothing.
Panicked == [panics |-> TRUE]

\* factor() returning the term 1 and the polynomial as it was.
ReturnOriginal(a0) == [panics |-> FALSE, t |-> Const(One), r |-> a0]

\* factor() when no variable occurs in every term.
FactorScalar(a0) ==
    Let2(a0, CoefGcd(a0), LAMBDA a, g :
        [panics |-> FALSE,
         t |-> Const(RInt(g)),
         r |-> IF g # 0
               THEN [a EXCEPT !.terms = ScaleTerms(a.terms, Rat(1, g))]
               ELSE a])

\* factor() from "Factor out the gcd" on: p is the simplified integer copy.
FactorOut(a0, var_name0, adjust0, p0) ==
    Let2(a0, [coefficient |-> RInt(CoefGcd(p0)),
              variables |-> <<[name |-> var_name0,
                               degree |-> FactorMinDegree(p0)]>>],
         LAMBDA a, factored_out :
            Let2(PolyMul(a, Poly(<<invert(factored_out)>>)), Rat(1, adjust0),
                 LAMBDA factored, undo :
                    [panics |-> FALSE,
                     t |-> [factored_out EXCEPT !.coefficient = RMul(@, undo)],
                     r |-> simplify([factored EXCEPT
                                       !.terms = ScaleTerms(@, undo)])]))

\* factor() when the variable var_name occurs in every term; it panics in
\* p.simplify(), or on p.terms[0].variables[0] when that term has no variable.
FactorVariable(a0, var_name0) ==
    Let2(a0, make_integer(a0), LAMBDA a, scaled :
        IF SimplifyPanics(scaled) THEN Panicked
        ELSE Let(simplify(scaled), LAMBDA p1 :
                 IF p1.terms[1].variables = <<>> THEN Panicked
                 ELSE FactorOut(a, var_name0, make_integer_lcm(a), p1)))

\* Polynomial::factor: [t |-> the factored-out term, r |-> the rest]; it
\* panics on self.terms[0] without terms.
factor(a0) ==
    Let(a0, LAMBDA a :
        IF a.terms = <<>> THEN Panicked
        ELSE Let(CommonVars(a), LAMBDA seen_vars :
                 IF seen_vars = <<>> THEN FactorScalar(a)
                 ELSE FactorVariable(a, seen_vars[1])))

\* impl Div for Term panics on a zero divisor coefficient (Rational64 division).
TermDivPanics(t1, t2) == t2.coefficient[1] = 0

\* impl Div for Term
TermDiv(t10, t20) ==
    Let2(t10, t20, LAMBDA t1, t2 :
        simplify(Poly(<<Term_factor(sort_vars(
            [coefficient |-> RDiv(t1.coefficient, t2.coefficient),
             variables |-> NegateDegrees(t2.variables) \o t1.variables]))>>)))

----------------------------------------------------------------------------
(* PolyRatio *)

\* impl From<Polynomial> for PolyRatio
From(a) == [numerator |-> a, denominator |-> Poly(<<Const(One)>>)]

Ratio(n, d) == [numerator |-> n, denominator |-> d]

\* vars_to_move: every variable of negative degree, its degree negated.
VarsToMove(a) ==
    NegateDegrees(SelectSeq(AllVars(a.terms), LAMBDA v : RLt(v.degree, RInt(0))))

Monomial(vs) == Poly(<<[coefficient |-> One, variables |-> vs]>>)

\* Only nd[side] multiplied by its negative powers, the other side left as it is.
MoveOneSide(nd0, side0) ==
    Let2(nd0, Monomial(VarsToMove(nd0[side0])), LAMBDA nd, m :
        [i \in 1..2 |-> IF i = side0 THEN PolyMul(nd[i], m) ELSE nd[i]])

\* n and d, as <<n, d>>, both multiplied by the negative powers of nd[side].
MoveVars(nd0, side0) ==
    Let2(nd0, Monomial(VarsToMove(nd0[side0])), LAMBDA nd, m :
        [i \in 1..2 |-> PolyMul(nd[i], m)])

\* The term cancelled from both sides.
GcdTerm(t10, t20) ==
    Let2(t10, t20, LAMBDA t1, t2 :
        [coefficient |-> RInt(gcd(Abs(t1.coefficient[1]), Abs(t2.coefficient[1]))),
         variables |-> IF /\ t1.variables # <<>>
                          /\ t2.variables # <<>>
                          /\ t1.variables[1].name = t2.variables[1].name
                       THEN <<[name |-> t1.variables[1].name,
                               degree |-> RMin(t1.variables[1].degree,
                                               t2.variables[1].degree)]>>
                       ELSE <<>>])

\* n = n * t * inv, its coefficients divided by adjust, simplified.
Recombine(f0, inv0, adjust0) ==
    Let(PolyMul(PolyMul(f0.r, Poly(<<f0.t>>)), inv0), LAMBDA n :
        simplify([n EXCEPT !.terms = ScaleTerms(@, Rat(1, adjust0))]))

\* if self.denominator == self.numerator { both become 1 }
CancelEqual(nd0) ==
    Let(nd0, LAMBDA nd :
        IF PolyEq(nd[2], nd[1])
        THEN Ratio(Poly(<<Const(One)>>), Poly(<<Const(One)>>))
        ELSE Ratio(nd[1], nd[2]))

\* PolyRatio::simplify from the two calls of factor() on: f is <<(t1, n), (t2, d)>>.
RatioCancel(f0, adjust0) ==
    Let2(f0, adjust0, LAMBDA f, adjust :
        Let(GcdTerm(f[1].t, f[2].t), LAMBDA gcd_term :
            IF InvertPanics(gcd_term) THEN Panicked
            ELSE Let(Poly(<<invert(gcd_term)>>), LAMBDA inv :
                     [panics |-> FALSE,
                      ratio |-> CancelEqual([i \in 1..2 |->
                                   Recombine(f[i], inv, adjust[i])])])))

\* PolyRatio::simplify from "let mut n = self.numerator.clone()" on: s is
\* <<self.numerator, self.denominator>> after their simplify().
RatioFactor(s0) ==
    Let(s0, LAMBDA s :
        Let(MoveVars(MoveVars([i \in 1..2 |-> make_integer(s[i])], 2), 1), LAMBDA nd :
            Let([i \in 1..2 |-> factor(nd[i])], LAMBDA f :
                IF f[1].panics \/ f[2].panics THEN Panicked
                ELSE RatioCancel(f, [i \in 1..2 |-> make_integer_lcm(s[i])]))))

\* PolyRatio::simplify: [panics |-> FALSE, ratio |-> the value it leaves], or
\* Panicked.
RatioSimplify(x0) ==
    Let(<<x0.numerator, x0.denominator>>, LAMBDA s :
        IF SimplifyPanics(s[1]) \/ SimplifyPanics(s[2]) THEN Panicked
        ELSE RatioFactor([i \in 1..2 |-> simplify(s[i])]))

\* impl Add / Sub / Mul / Div for PolyRatio: the value built before
\* result.simplify().
RatioAddRaw(x0, y0) ==
    Let2(x0, y0, LAMBDA x, y :
        Ratio(PolyAdd(PolyMul(x.numerator, y.denominator),
                      PolyMul(y.numerator, x.denominator)),
              PolyMul(x.denominator, y.denominator)))

RatioSubRaw(x0, y0) ==
    Let2(x0, y0, LAMBDA x, y :
        Ratio(PolySub(PolyMul(x.numerator, y.denominator),
                      PolyMul(y.numerator, x.denominator)),
              PolyMul(x.denominator, y.denominator)))

RatioMulRaw(x0, y0) ==
    Let2(x0, y0, LAMBDA x, y :
        Ratio(PolyMul(x.numerator, y.numerator), PolyMul(x.denominator, y.denominator)))

RatioDivRaw(x0, y0) ==
    Let2(x0, y0, LAMBDA x, y :
        Ratio(PolyMul(x.numerator, y.denominator), PolyMul(x.denominator, y.numerator)))

\* PolyRatio::as_string
PolyRatio_as_string(x0) ==
    Let2(x0, as_string(x0.denominator), LAMBDA x, d :
        IF d = "1" THEN as_string(x.numerator)
        ELSE IF d = "0" THEN "ERROR: Division by zero!"
        ELSE "(" \o as_string(x.numerator) \o ") / (" \o d \o ")")

----------------------------------------------------------------------------
(* Inputs *)

MaxCoef == 2
MaxTerms == 2

X(d) == [name |-> 1, degree |-> d]
Y(d) == [name |-> 2, degree |-> d]

\* Variable lists as the parser may build them: unsorted, with repeated names,
\* with powers that cancel.
RawVarLists ==
    { <<>>, <<X(One)>>, <<Y(One), X(One)>>, <<X(One), X(One)>>,
      <<X(One), X(RInt(-1))>>, <<Y(RInt(2))>> }

Half == <<1, 2>>

RawCoefs == {RInt(-1), RInt(0), One, RInt(4), Half}

RawTerms == [coefficient : RawCoefs, variables : RawVarLists]

SeqsUpTo(S, n) == UNION {[1..k -> S] : k \in 0..n}

OuterExponents == {One, RInt(2), Half, RInt(-1)}

RawPolys ==
    {a \in [terms : SeqsUpTo(RawTerms, MaxTerms), degree : OuterExponents] :
        ~SimplifyLossy(a)}

Zero == Poly(<<Const(RInt(0))>>)

Z(d) == [name |-> 3, degree |-> d]

A(d) == [name |-> -2, degree |-> d]
B(d) == [name |-> -1, degree |-> d]
C(d) == [name |-> 0, degree |-> d]

Coefs == {RInt(c) : c \in -MaxCoef..MaxCoef}

NonZeroCoefs == Coefs \ {RInt(0)}

\* The polynomial with coefficient f[i] on the monomial monos[i], canonicalized
\* (a zero coefficient leaves the monomial out).
FromCoefs(monos, f) ==
    simplify(Poly([i \in 1..Len(monos) |->
                     [coefficient |-> f[i], variables |-> monos[i]]]))

CanonOver(monos) == {FromCoefs(monos, f) : f \in [1..Len(monos) -> Coefs]}

\* Operands of + - *: canonical polynomials, and a few stored forms that are
\* not canonical (no terms, a zero term with variables, an unsorted term).
CanonOperands ==
    CanonOver(<< <<X(One)>>, <<Y(One)>> >>)
      \cup CanonOver(<< <<X(RInt(-1))>>, <<X(One), Y(One)>> >>)
      \cup CanonOver(<< <<>>, <<X(RInt(2))>> >>)

\* The operands of the addition benchmark: (x + 2y + 3z) with the outer
\* exponent 3, and a + 2b + 3c^4.
ScenarioA1 ==
    [terms |-> <<[coefficient |-> One, variables |-> <<X(One)>>],
                 [coefficient |-> RInt(2), variables |-> <<Y(One)>>],
                 [coefficient |-> RInt(3), variables |-> <<Z(One)>>]>>,
     degree |-> RInt(3)]

ScenarioA2 ==
    Poly(<<[coefficient |-> One, variables |-> <<A(One)>>],
           [coefficient |-> RInt(2), variables |-> <<B(One)>>],
           [coefficient |-> RInt(3), variables |-> <<C(RInt(4))>>]>>)

RawOperands ==
    { ScenarioA1, ScenarioA2,
      Poly(<<>>),
      Poly(<<[coefficient |-> RInt(0), variables |-> <<X(One)>>]>>),
      Poly(<<[coefficient |-> One, variables |-> <<Y(One), X(One)>>],
             [coefficient |-> RInt(-1), variables |-> <<X(One), Y(One)>>]>>) }

Operands == CanonOperands \cup RawOperands

MaxVars == 2

\* The terms compared with ==: variable lists in every order, a name repeated
\* with different degrees included.
EqVarLists == SeqsUpTo({X(One), X(RInt(2)), Y(One)}, MaxVars)

EqTerms == [coefficient : {One, RInt(2)}, variables : EqVarLists]

\* Numerators and denominators of the ratios that are simplified.
RatioNums ==
    CanonOver(<< <<X(One)>>, <<Y(One)>> >>)
      \cup CanonOver(<< <<X(RInt(2)), Y(One)>>, <<X(RInt(3))>> >>)

RatioDens == CanonOver(<< <<X(One)>>, <<X(RInt(2))>> >>)

\* Ratios whose value is compared before and after simplify: numerators and
\* nonzero denominators with negative powers, with fractional coefficients and
\* in stored forms that are not canonical, all with the outer exponent 1.
Halved(S) == {Poly(ScaleTerms(a.terms, Half)) : a \in S}

ValueNums ==
    CanonOver(<< <<X(RInt(-1))>>, <<X(One), Y(One)>> >>)
      \cup Halved(CanonOver(<< <<X(One)>>, <<>> >>))
      \cup {Poly(<<>>),
            Poly(<<[coefficient |-> One, variables |-> <<Y(One), X(One)>>],
                   [coefficient |-> One, variables |-> <<X(One), Y(One)>>]>>)}

ValueDens ==
    (CanonOver(<< <<X(RInt(2))>>, <<X(RInt(-1))>> >>)
       \cup Halved(CanonOver(<< <<X(One)>>, <<Y(RInt(-1))>> >>))
       \cup {Poly(<<[coefficient |-> One, variables |-> <<X(One)>>],
                    [coefficient |-> One, variables |-> <<X(One)>>]>>)})
      \ {Zero}

\* Denominators that simplify to the zero polynomial: 0, no terms, 0*x, x - x.
ZeroDens ==
    { Zero, Poly(<<>>),
      Poly(<<[coefficient |-> RInt(0), variables |-> <<X(One)>>]>>),
      Poly(<<[coefficient |-> One, variables |-> <<X(One)>>],
             [coefficient |-> RInt(-1), variables |-> <<X(One)>>]>>) }

\* The nonzero denominators e of the zero ratios 0 / e.
UnitDens ==
    {Poly(<<Const(One)>>), Poly(<<[coefficient |-> One, variables |-> <<X(One)>>]>>)}

\* Divisors b and quotients q0 of the exact divisions a = q0 * b.
Divisors == CanonOver(<< <<X(One)>>, <<Y(One)>>, <<>> >>) \ {Zero}

Quotients == CanonOver(<< <<X(One)>>, <<Y(One)>> >>) \ {Zero}

MaxDivIter == 4

\* Dividends that simplify to the zero polynomial, and divisors of positive,
\* zero and negative degree.
ZeroDividends == ZeroDens

AnyDivisors == Divisors \cup {Poly(<<[coefficient |-> One, variables |-> <<X(RInt(-1))>>]>>)}

\* Dividends of the divisions by a zero divisor: of positive, zero and negative
\* degree, and the zero polynomial.
ByZeroDividends ==
    CanonOver(<< <<X(One)>>, <<Y(One)>> >>)
      \cup {Poly(<<Const(One)>>), Poly(<<>>),
            Poly(<<[coefficient |-> One, variables |-> <<X(RInt(-1))>>]>>)}

\* roots(): a*x*m + b with m a monomial without x and b without x, stored
\* leading term first; a*x^2 + b*x + c*m; and polynomials of other degrees.
Monic(c, vs) == [coefficient |-> c, variables |-> vs]

\* The polynomial of the linear-root benchmark: 3xy + 2z.
ScenarioB ==
    Poly(<<Monic(RInt(3), <<X(One), Y(One)>>), Monic(RInt(2), <<Z(One)>>)>>)

LinearInputs ==
    {Poly(<<Monic(a, <<X(One)>> \o m)>> \o b) :
        a \in NonZeroCoefs, m \in {<<>>, <<Y(One)>>},
        b \in {<<>>} \cup {<<Monic(c, vs)>> : c \in NonZeroCoefs, vs \in {<<>>, <<Z(One)>>}}}
      \cup {ScenarioB}

\* The polynomial of the quadratic-root benchmark: 3x^2 + 2x + x^0*y.
ScenarioC ==
    Poly(<<Monic(RInt(3), <<X(RInt(2))>>), Monic(RInt(2), <<X(One)>>),
           Monic(One, <<X(RInt(0)), Y(One)>>)>>)

QuadraticInputs ==
    {Poly(<<Monic(a, <<X(RInt(2))>>), Monic(b, <<X(One)>>), Monic(c, m)>>) :
        a \in NonZeroCoefs, b \in NonZeroCoefs, c \in NonZeroCoefs,
        m \in {<<>>, <<X(RInt(0)), Y(One)>>}}
      \cup {ScenarioC}

\* Polynomials of degree 2 with one, two and four terms.
QuadraticShapes ==
    {Poly(<<Monic(One, <<X(RInt(2))>>)>>),
     Poly(<<Monic(One, <<X(RInt(2))>>), Const(One)>>),
     Poly(<<Monic(One, <<X(RInt(2))>>), Monic(RInt(-1), <<X(One)>>),
            Monic(RInt(-2), <<Y(One)>>), Const(One)>>)}

\* Polynomials of degree 3, 0, -1 and 1/2.
OtherInputs ==
    {Poly(<<Monic(One, <<X(RInt(3))>>)>>), Poly(<<Const(One)>>),
     Poly(<<Monic(One, <<X(RInt(-1))>>)>>),
     Poly(<<Monic(One, <<X(Half)>>), Const(One)>>)}

RootInputs ==
    LinearInputs \cup QuadraticInputs \cup QuadraticShapes \cup OtherInputs

\* The linear and the quadratic polynomials as stored leading term first and
\* as stored last term first: 3x + 2 and 2 + 3x.
Reverse(s) == [i \in 1..Len(s) |-> s[Len(s) + 1 - i]]

StoredInputs ==
    Let(LinearInputs \cup QuadraticInputs, LAMBDA S :
        S \cup {Poly(Reverse(a.terms)) : a \in S})

\* Operands of the three-operand sums and products: c1*x + c2*y^-1.
AssocCoefs == {RInt(c) : c \in -1..MaxCoef}

AssocOperands ==
    {FromCoefs(<< <<X(One)>>, <<Y(RInt(-1))>> >>, f) : f \in [1..2 -> AssocCoefs]}

FactorInputs == {a \in RawPolys : a.degree = One}

\* leading_term(): stored term lists in any order, with ties of the maximal
\* degree and with terms of negative maximal degree.
LeadInputs ==
    {Poly(ts) :
        ts \in SeqsUpTo([coefficient : {One, RInt(2)},
                         variables : {<<>>, <<X(One)>>, <<Y(One)>>,
                                      <<X(RInt(2)), Y(One)>>, <<X(RInt(-1))>>,
                                      <<X(RInt(-2)), Y(RInt(-1))>>}],
                        MaxTerms) \ {<<>>}}

\* evaluate(): polynomials with repeated names and with an outer exponent, and
\* binding lists of at most MaxBindings assignments, a name assigned twice
\* included.  The values are held exactly by f64.
MaxBindings == 2

EvalInputs ==
    [terms : SeqsUpTo([coefficient : {One, RInt(2)},
                       variables : {<<>>, <<X(One)>>, <<Y(RInt(-1)), X(RInt(2))>>,
                                    <<X(One), X(One)>>}],
                      MaxTerms),
     degree : {One, RInt(2)}]

Bindings == {<<n, v>> : n \in {1, 2}, v \in {RInt(0), RInt(2)}} \cup {<<1, Half>>}

BindingLists == SeqsUpTo(Bindings, MaxBindings)

\* The polynomial lines of the input file, as parse_polynomial builds them:
\* x, y, x + y, 2x^2y, x*x, y^-1 + 1 and 1.
PolynomialLines ==
    {Poly(<<Monic(One, <<X(One)>>)>>),
     Poly(<<Monic(One, <<Y(One)>>)>>),
     Poly(<<Monic(One, <<X(One)>>), Monic(One, <<Y(One)>>)>>),
     Poly(<<Monic(RInt(2), <<X(RInt(2)), Y(One)>>)>>),
     Poly(<<Monic(One, <<X(One), X(One)>>)>>),
     Poly(<<Monic(One, <<Y(RInt(-1))>>), Const(One)>>),
     Poly(<<Const(One)>>)}

\* Term::pow: coefficients, variable lists and exponents.  The exponents have
\* denominator 1 or 2, which f64 holds exactly; a fractional coefficient with
\* an irrational power is left out (PowLossy).
PowTerms ==
    [coefficient : Coefs \cup {RInt(4), Half, <<1, 4>>},
     variables : {<<>>, <<X(One)>>, <<X(RInt(2)), Y(RInt(-1))>>}]

PowExponents == {RInt(-2), RInt(-1), <<-1, 2>>, RInt(0), Half, One, RInt(2)}

\* simplify() of a sum with an integer outer exponent: the term lists of the
\* bases, of two and of three terms, with the exponents 2..MaxPower for two
\* terms and 2 for three.
MaxPower == 3

PowerInputs ==
    {a \in [terms : {b.terms : b \in Operands \cup CanonOver(<< <<X(One)>>, <<>> >>)},
            degree : {RInt(n) : n \in 2..MaxPower}] :
        /\ Len(a.terms) >= 2
        /\ Len(a.terms) = 2 \/ a.degree = RInt(2)}

----------------------------------------------------------------------------
(* The operations, each applied to inputs drawn from the bounded sets *)

NoLocals ==
    [a |-> One, b |-> One, c |-> One, rest |-> Zero,
     minus_b |-> From(Zero), b_squared |-> From(Zero), four_a |-> From(Zero),
     four_ac |-> From(Zero), discriminant |-> From(Zero), two_a |-> From(Zero),
     sum |-> From(Zero), diff |-> From(Zero), root1 |-> From(Zero),
     root2 |-> From(Zero)]

Init ==
    /\ pc = "start"
    /\ p = Zero /\ q = Zero /\ r = Zero
    /\ prev = Zero /\ out = Zero
    /\ quotient = Zero /\ remainder = Zero /\ divisor = Zero
    /\ iter = 0
    /\ loc = NoLocals

divvars == <<quotient, remainder, divisor, iter>>

\* a.simplify()
Simplify ==
    /\ pc = "start"
    /\ \E a \in RawPolys :
        /\ p' = a
        /\ IF SimplifyPanics(a)
           THEN pc' = "panic" /\ out' = out
           ELSE pc' = "simplified" /\ out' = simplify(a)
    /\ UNCHANGED <<q, r, prev, divvars, loc>>

\* simplify() again, on the value the first call left.
Resimplify ==
    /\ pc = "simplified"
    /\ ~SimplifyPanics(out)
    /\ ~SimplifyLossy(out)
    /\ prev' = out
    /\ out' = simplify(out)
    /\ pc' = "resimplified"
    /\ UNCHANGED <<p, q, r, divvars, loc>>

NextSimplify == Simplify \/ Resimplify

SpecSimplify == Init /\ [][NextSimplify]_vars

\* a + b
Add ==
    /\ pc = "start"
    /\ \E a \in Operands, b \in Operands :
        /\ p' = a /\ q' = b
        /\ out' = PolyAdd(a, b)
    /\ pc' = "added"
    /\ UNCHANGED <<r, prev, divvars, loc>>

\* a - b
Sub ==
    /\ pc = "start"
    /\ \E a \in Operands, b \in Operands :
        /\ p' = a /\ q' = b
        /\ out' = PolySub(a, b)
    /\ pc' = "subtracted"
    /\ UNCHANGED <<r, prev, divvars, loc>>

\* a * b
Mul ==
    /\ pc = "start"
    /\ \E a \in Operands, b \in Operands :
        /\ p' = a /\ q' = b
        /\ out' = PolyMul(a, b)
    /\ pc' = "multiplied"
    /\ UNCHANGED <<r, prev, divvars, loc>>

NextArith == Simplify \/ Add \/ Sub \/ Mul

SpecArith == Init /\ [][NextArith]_vars

\* a == b of Polynomial
Eq ==
    /\ pc = "start"
    /\ \E a \in Operands, b \in Operands :
        /\ p' = a /\ q' = b
        /\ out' = PolyEq(a, b)
    /\ pc' = "compared"
    /\ UNCHANGED <<r, prev, divvars, loc>>

\* t1 == t2 of Term; p and q hold the two terms.
TermEqual ==
    /\ pc = "start"
    /\ \E t1 \in EqTerms, t2 \in EqTerms :
        /\ p' = Poly(<<t1>>) /\ q' = Poly(<<t2>>)
        /\ out' = TermEq(t1, t2)
    /\ pc' = "terms_compared"
    /\ UNCHANGED <<r, prev, divvars, loc>>

NextEq == Eq \/ TermEqual

SpecEq == Init /\ [][NextEq]_vars

\* t.pow(e); the term and the exponent are kept as p.terms[1] and p.degree.
Pow ==
    /\ pc = "start"
    /\ \E t \in PowTerms, e \in PowExponents :
        /\ ~PowLossy(t.coefficient, e)
        /\ p' = [terms |-> <<t>>, degree |-> e]
        /\ IF PowPanics(t.coefficient, e)
           THEN pc' = "panic" /\ out' = out
           ELSE pc' = "powered" /\ out' = pow(t, e)
    /\ UNCHANGED <<q, r, prev, divvars, loc>>

NextPow == Pow

SpecPow == Init /\ [][NextPow]_vars

\* a.simplify(), a of two or more terms with an integer outer exponent >= 2.
Power ==
    /\ pc = "start"
    /\ \E a \in PowerInputs :
        /\ p' = a
        /\ out' = simplify(a)
        /\ pc' = "raised"
    /\ UNCHANGED <<q, r, prev, divvars, loc>>

NextPower == Power

SpecPower == Init /\ [][NextPower]_vars

\* a.leading_term()
Leading ==
    /\ pc = "start"
    /\ \E a \in LeadInputs :
        /\ p' = a
        /\ out' = leading_term(a)
        /\ pc' = "led"
    /\ UNCHANGED <<q, r, prev, divvars, loc>>

NextLeading == Leading

SpecLeading == Init /\ [][NextLeading]_vars

\* a.evaluate(&values); the bindings are kept in q.
Evaluate ==
    /\ pc = "start"
    /\ \E a \in EvalInputs, values \in BindingLists :
        /\ ~EvaluateLossy(a, values)
        /\ p' = a /\ q' = values
        /\ IF EvaluatePanics(a, values)
           THEN pc' = "panic" /\ out' = out
           ELSE pc' = "evaluated" /\ out' = evaluate(a, values)
    /\ UNCHANGED <<r, prev, divvars, loc>>

NextEvaluate == Evaluate

SpecEvaluate == Init /\ [][NextEvaluate]_vars

\* main: let mut var_values = Vec::new(), kept in q, before the first line.
DriverStart ==
    /\ pc = "start"
    /\ q' = <<>>
    /\ pc' = "lines"
    /\ UNCHANGED <<p, r, prev, out, divvars, loc>>

\* main, Rule::assign: var_values.push((var_name, var_value)), for at most
\* MaxBindings assignments.
Assign ==
    /\ pc \in {"lines", "printed"}
    /\ Len(q) < MaxBindings
    /\ \E b \in Bindings : q' = Append(q, b)
    /\ pc' = "lines"
    /\ UNCHANGED <<p, r, prev, out, divvars, loc>>

\* main, Rule::polynomial: p = parse_polynomial(line); p.evaluate(&var_values);
\* the line is kept in p and the polynomial printed in out.
PolynomialLine ==
    /\ pc \in {"lines", "printed"}
    /\ \E a \in PolynomialLines :
        /\ p' = a
        /\ IF EvaluatePanics(a, q)
           THEN pc' = "panic" /\ out' = out
           ELSE pc' = "printed" /\ out' = evaluate(a, q)
    /\ UNCHANGED <<q, r, prev, divvars, loc>>

NextDriver == DriverStart \/ Assign \/ PolynomialLine

SpecDriver == Init /\ [][NextDriver]_vars

\* (a + b) + c
Add3 ==
    /\ pc = "start"
    /\ \E a \in AssocOperands, b \in AssocOperands, c \in AssocOperands :
        /\ p' = a /\ q' = b /\ r' = c
        /\ out' = PolyAdd(PolyAdd(a, b), c)
    /\ pc' = "added3"
    /\ UNCHANGED <<prev, divvars, loc>>

\* (a * b) * c
Mul3 ==
    /\ pc = "start"
    /\ \E a \in AssocOperands, b \in AssocOperands, c \in AssocOperands :
        /\ p' = a /\ q' = b /\ r' = c
        /\ out' = PolyMul(PolyMul(a, b), c)
    /\ pc' = "multiplied3"
    /\ UNCHANGED <<prev, divvars, loc>>

NextAssoc == Add3 \/ Mul3

SpecAssoc == Init /\ [][NextAssoc]_vars

\* a.factor(); out is [t |-> the factored-out term, r |-> the rest].
Factor ==
    /\ pc = "start"
    /\ \E a \in FactorInputs :
        /\ p' = a
        /\ \E o \in {factor(a)} :
            IF o.panics
            THEN pc' = "panic" /\ out' = out
            ELSE pc' = "factored" /\ out' = [t |-> o.t, r |-> o.r]
    /\ UNCHANGED <<q, r, prev, divvars, loc>>

\* (t * r).simplify(), kept in prev
FactorProduct ==
    /\ pc = "factored"
    /\ prev' = simplify(PolyMul(Poly(<<out.t>>), out.r))
    /\ pc' = "factor_multiplied"
    /\ UNCHANGED <<p, q, r, out, divvars, loc>>

NextFactor == Factor \/ FactorProduct

SpecFactor == Init /\ [][NextFactor]_vars

\* PolyRatio { numerator: n, denominator: d }.simplify()
RatioSimp ==
    /\ pc = "start"
    /\ \E n \in RatioNums, d \in RatioDens :
        /\ p' = n /\ q' = d
        /\ \E o \in {RatioSimplify(Ratio(n, d))} :
            IF o.panics
            THEN pc' = "panic" /\ out' = out
            ELSE pc' = "ratio_simplified" /\ out' = o.ratio
    /\ UNCHANGED <<r, prev, divvars, loc>>

\* simplify() again, on the ratio the first call left.
RatioResimp ==
    /\ pc = "ratio_simplified"
    /\ prev' = out
    /\ \E o \in {RatioSimplify(out)} :
        IF o.panics
        THEN pc' = "panic" /\ out' = out
        ELSE pc' = "ratio_resimplified" /\ out' = o.ratio
    /\ UNCHANGED <<p, q, r, divvars, loc>>

\* PolyRatio { numerator: n, denominator: d }.simplify(), d nonzero.
RatioValue ==
    /\ pc = "start"
    /\ \E n \in ValueNums, d \in ValueDens :
        /\ p' = n /\ q' = d
        /\ \E o \in {RatioSimplify(Ratio(n, d))} :
            IF o.panics
            THEN pc' = "panic" /\ out' = out
            ELSE pc' = "ratio_simplified" /\ out' = o.ratio
    /\ UNCHANGED <<r, prev, divvars, loc>>

NextRatioValue == RatioValue

SpecRatioValue == Init /\ [][NextRatioValue]_vars

NextRatio == RatioSimp \/ RatioResimp

SpecRatio == Init /\ [][NextRatio]_vars

\* PolyRatio { numerator: n, denominator: d }.simplify(), d simplifying to 0.
SentinelSimp ==
    /\ pc = "start"
    /\ \E n \in RatioNums, d \in ZeroDens :
        /\ p' = n /\ q' = d
        /\ \E o \in {RatioSimplify(Ratio(n, d))} :
            IF o.panics
            THEN pc' = "panic" /\ out' = out
            ELSE pc' = "ratio_simplified" /\ out' = o.ratio
    /\ UNCHANGED <<r, prev, divvars, loc>>

\* PolyRatio::from(n) / PolyRatio { numerator: 0, denominator: e }
SentinelDiv ==
    /\ pc = "start"
    /\ \E n \in RatioNums, e \in UnitDens :
        /\ p' = n /\ q' = Zero /\ r' = e
        /\ \E o \in {RatioSimplify(RatioDivRaw(From(n), Ratio(Zero, e)))} :
            IF o.panics
            THEN pc' = "panic" /\ out' = out
            ELSE pc' = "ratio_simplified" /\ out' = o.ratio
    /\ UNCHANGED <<prev, divvars, loc>>

\* as_string() of the ratio simplify left; the ratio is kept in prev.
Render ==
    /\ pc = "ratio_simplified"
    /\ prev' = out
    /\ out' = PolyRatio_as_string(out)
    /\ pc' = "rendered"
    /\ UNCHANGED <<p, q, r, divvars, loc>>

NextSentinel == SentinelSimp \/ SentinelDiv \/ Render

SpecSentinel == Init /\ [][NextSentinel]_vars

\* a / b up to the long-division loop, for a = q0 * b.
DivStart ==
    /\ pc = "start"
    /\ \E b \in Divisors, q0 \in Quotients :
        \E a \in {PolyMul(q0, b)} :
        \E dividend \in {simplify(a)}, dvsr \in {simplify(b)} :
            /\ p' = a /\ q' = b /\ r' = q0
            /\ IF dividend.terms = <<>>
               THEN /\ pc' = "divided"
                    /\ out' = From(Zero)
                    /\ UNCHANGED divvars
               ELSE IF RLt(degree(dividend), degree(dvsr))
               THEN /\ pc' = "divided"
                    /\ out' = Ratio(dividend, dvsr)
                    /\ UNCHANGED divvars
               ELSE /\ pc' = "dividing"
                    /\ quotient' = Poly(<<>>)
                    /\ remainder' = dividend
                    /\ divisor' = dvsr
                    /\ iter' = 0
                    /\ out' = out
    /\ UNCHANGED <<prev, loc>>

\* a / b up to the long-division loop, for a dividend that simplifies to 0.
DivZero ==
    /\ pc = "start"
    /\ \E a \in ZeroDividends, b \in AnyDivisors :
        \E dividend \in {simplify(a)}, dvsr \in {simplify(b)} :
            /\ p' = a /\ q' = b /\ r' = Zero
            /\ IF dividend.terms = <<>>
               THEN /\ pc' = "divided"
                    /\ out' = From(Zero)
                    /\ UNCHANGED divvars
               ELSE IF RLt(degree(dividend), degree(dvsr))
               THEN /\ pc' = "divided"
                    /\ out' = Ratio(dividend, dvsr)
                    /\ UNCHANGED divvars
               ELSE /\ pc' = "dividing"
                    /\ quotient' = Poly(<<>>)
                    /\ remainder' = dividend
                    /\ divisor' = dvsr
                    /\ iter' = 0
                    /\ out' = out
    /\ UNCHANGED <<prev, loc>>

\* a / b up to the long-division loop, for a divisor that simplifies to 0.
DivByZero ==
    /\ pc = "start"
    /\ \E a \in ByZeroDividends, b \in ZeroDens :
        \E dividend \in {simplify(a)}, dvsr \in {simplify(b)} :
            /\ p' = a /\ q' = b /\ r' = Zero
            /\ IF dividend.terms = <<>>
               THEN /\ pc' = "divided"
                    /\ out' = From(Zero)
                    /\ UNCHANGED divvars
               ELSE IF RLt(degree(dividend), degree(dvsr))
               THEN /\ pc' = "divided"
                    /\ out' = Ratio(dividend, dvsr)
                    /\ UNCHANGED divvars
               ELSE /\ pc' = "dividing"
                    /\ quotient' = Poly(<<>>)
                    /\ remainder' = dividend
                    /\ divisor' = dvsr
                    /\ iter' = 0
                    /\ out' = out
    /\ UNCHANGED <<prev, loc>>

\* as_string() of the ratio a / b returned; the ratio is kept in prev.
RenderQuotient ==
    /\ pc = "divided"
    /\ prev' = out
    /\ out' = PolyRatio_as_string(out)
    /\ pc' = "rendered"
    /\ UNCHANGED <<p, q, r, divvars, loc>>

\* The condition of the while loop.
DivLoopCond ==
    /\ ~PolyEq(remainder, Zero)
    /\ remainder.terms # <<>>
    /\ RLe(degree(divisor), degree(remainder))

\* One turn of the statement at the head of the loop: an iteration while the
\* condition holds, and past the loop quotient.simplify() and
\* PolyRatio::from(quotient).
DivStep ==
    /\ pc = "dividing"
    /\ IF DivLoopCond
       THEN /\ iter < MaxDivIter
            /\ \E lr \in {leading_term(remainder)}, ld \in {leading_term(divisor)} :
                IF TermDivPanics(lr, ld)
                THEN pc' = "panic" /\ UNCHANGED <<divvars, out>>
                ELSE \E t \in {TermDiv(lr, ld)} :
                        /\ quotient' = PolyAdd(quotient, t)
                        /\ remainder' = simplify(PolySub(remainder, PolyMul(divisor, t)))
                        /\ iter' = iter + 1
                        /\ UNCHANGED <<pc, divisor, out>>
       ELSE /\ out' = From(simplify(quotient))
            /\ pc' = "divided"
            /\ UNCHANGED divvars
    /\ UNCHANGED <<p, q, r, prev, loc>>

NextDiv == DivStart \/ DivStep

SpecDiv == Init /\ [][NextDiv]_vars

NextDivZero == DivZero \/ DivStep

SpecDivZero == Init /\ [][NextDivZero]_vars

NextDivByZero == DivByZero \/ DivStep \/ RenderQuotient

SpecDivByZero == Init /\ [][NextDivByZero]_vars

\* roots(): the match on self.degree() and the coefficients each arm reads.
\* self.terms[1] or self.terms[2] of a shorter list panics (index out of
\* bounds); the last arm panics with "Higher degree polynomials not supported
\* yet!".
RootsStart ==
    /\ pc = "start"
    /\ \E a \in RootInputs :
        /\ p' = a
        /\ IF degree(a) = One
           THEN /\ pc' = "linear"
                /\ loc' = [loc EXCEPT !.a = a.terms[1].coefficient,
                                      !.rest = Poly(Tail(a.terms))]
           ELSE IF degree(a) = RInt(2)
           THEN IF Len(a.terms) >= 3
                THEN /\ pc' = "quadratic"
                     /\ loc' = [loc EXCEPT !.a = a.terms[1].coefficient,
                                           !.b = a.terms[2].coefficient,
                                           !.c = a.terms[3].coefficient]
                ELSE pc' = "panic" /\ loc' = loc
           ELSE pc' = "unsupported" /\ loc' = loc
    /\ UNCHANGED <<q, r, prev, out, divvars>>

\* a.roots("x"), a stored in either order: the same match.
RootsStored ==
    /\ pc = "start"
    /\ \E a \in StoredInputs :
        /\ p' = a
        /\ IF degree(a) = One
           THEN /\ pc' = "linear"
                /\ loc' = [loc EXCEPT !.a = a.terms[1].coefficient,
                                      !.rest = Poly(Tail(a.terms))]
           ELSE IF degree(a) = RInt(2)
           THEN IF Len(a.terms) >= 3
                THEN /\ pc' = "quadratic"
                     /\ loc' = [loc EXCEPT !.a = a.terms[1].coefficient,
                                           !.b = a.terms[2].coefficient,
                                           !.c = a.terms[3].coefficient]
                ELSE pc' = "panic" /\ loc' = loc
           ELSE pc' = "unsupported" /\ loc' = loc
    /\ UNCHANGED <<q, r, prev, out, divvars>>

K(c) == From(Poly(<<Const(c)>>))

Stmt(op, x, y, f, to) == [op |-> op, x |-> x, y |-> y, f |-> f, to |-> to]

\* The statement of roots() at pc: loc.f = x op y, then on to the next one.
\* "sqrt" sets both degree fields of x to 1/2 and simplifies.
RootsStmt ==
    CASE pc = "linear" ->
           Stmt("mul", From(loc.rest), K(RInt(-1)), "minus_b", "linear_root")
      [] pc = "linear_root" ->
           Stmt("div", loc.minus_b, K(loc.a), "root1", "rooted")
      [] pc = "quadratic" ->
           Stmt("mul", K(RInt(-1)), K(loc.b), "minus_b", "quad_b_squared")
      [] pc = "quad_b_squared" ->
           Stmt("mul", K(loc.b), K(loc.b), "b_squared", "quad_four_a")
      [] pc = "quad_four_a" ->
           Stmt("mul", K(RInt(4)), K(loc.a), "four_a", "quad_four_ac")
      [] pc = "quad_four_ac" ->
           Stmt("mul", loc.four_a, K(loc.c), "four_ac", "quad_discriminant")
      [] pc = "quad_discriminant" ->
           Stmt("sub", loc.b_squared, loc.four_ac, "discriminant", "quad_sqrt")
      [] pc = "quad_sqrt" ->
           Stmt("sqrt", loc.discriminant, loc.discriminant, "discriminant", "quad_two_a")
      [] pc = "quad_two_a" ->
           Stmt("mul", K(RInt(2)), K(loc.a), "two_a", "quad_sum")
      [] pc = "quad_sum" ->
           Stmt("add", loc.minus_b, loc.discriminant, "sum", "quad_root1")
      [] pc = "quad_root1" ->
           Stmt("div", loc.sum, loc.two_a, "root1", "quad_diff")
      [] pc = "quad_diff" ->
           Stmt("sub", loc.minus_b, loc.discriminant, "diff", "quad_root2")
      [] pc = "quad_root2" ->
           Stmt("div", loc.diff, loc.two_a, "root2", "rooted")

RootsPcs ==
    {"linear", "linear_root", "quadratic", "quad_b_squared", "quad_four_a",
     "quad_four_ac", "quad_discriminant", "quad_sqrt", "quad_two_a", "quad_sum",
     "quad_root1", "quad_diff", "quad_root2"}

WithDegree(x, d) ==
    Ratio([x.numerator EXCEPT !.degree = d], [x.denominator EXCEPT !.degree = d])

\* x op y of PolyRatio: the raw value, then result.simplify().
RatioOp(op, x, y) ==
    RatioSimplify(CASE op = "add" -> RatioAddRaw(x, y)
                    [] op = "sub" -> RatioSubRaw(x, y)
                    [] op = "mul" -> RatioMulRaw(x, y)
                    [] op = "div" -> RatioDivRaw(x, y)
                    [] op = "sqrt" -> WithDegree(x, Half))

\* One statement of roots(); the last one of an arm returns the roots pushed.
RootsStep ==
    /\ pc \in RootsPcs
    /\ \E s \in {RootsStmt} :
       \E o \in {RatioOp(s.op, s.x, s.y)} :
            IF o.panics
            THEN pc' = "panic" /\ UNCHANGED <<loc, out>>
            ELSE /\ pc' = s.to
                 /\ loc' = [loc EXCEPT ![s.f] = o.ratio]
                 /\ out' = IF s.to # "rooted" THEN out
                           ELSE IF pc = "linear_root" THEN <<o.ratio>>
                           ELSE <<loc.root1, o.ratio>>
    /\ UNCHANGED <<p, q, r, prev, divvars>>

NextRoots == RootsStart \/ RootsStep

SpecRoots == Init /\ [][NextRoots]_vars

NextRootsStored == RootsStored \/ RootsStep

SpecRootsStored == Init /\ [][NextRootsStored]_vars

----------------------------------------------------------------------------
(* Properties *)

Simplified == pc \in {"simplified", "resimplified"}

\* C1: Polynomial.simplify is idempotent: a second simplify leaves the terms
\* and the outer exponent that the first one produced.
C1_SimplifyIdempotent == pc = "resimplified" => out = prev

\* C2: PolyRatio.simplify is idempotent: with a nonzero denominator, a second
\* simplify leaves the numerator and the denominator the first one produced.
C2_RatioSimplifyIdempotent ==
    (pc = "ratio_resimplified" /\ q # Zero) =>
        /\ out.numerator.terms = prev.numerator.terms
        /\ out.denominator.terms = prev.denominator.terms

\* C3: factoring round trip: with (t, r) = p.factor(), the product t * r
\* simplified has the terms of p simplified.
C3_FactorRoundTrip ==
    pc = "factor_multiplied" => prev.terms = simplify(p).terms

\* C4: division consistency: for a = q0 * b, a / b returns q0 over 1 and
\* q0 * b is a; the call returns, its loop having ended by MaxDivIter
\* iterations (q0 has at most two terms).
C4_DivisionConsistent ==
    /\ pc = "divided" =>
          /\ out = From(r)
          /\ PolyMul(out.numerator, q).terms = simplify(p).terms
    /\ (pc = "dividing" /\ DivLoopCond) => iter < MaxDivIter

\* C5: + and * are commutative on canonicalized polynomials: a + b has the
\* term sequence of b + a, and a * b that of b * a.
C5_Commutative ==
    (p \in CanonOperands /\ q \in CanonOperands) =>
        /\ pc = "added" => out.terms = PolyAdd(q, p).terms
        /\ pc = "multiplied" => out.terms = PolyMul(q, p).terms

C5_Witness ==
    /\ pc = "multiplied"
    /\ p \in CanonOperands /\ q \in CanonOperands
    /\ p # q
    /\ Len(p.terms) = 2 /\ Len(q.terms) = 2
    /\ Len(out.terms) = 3
    /\ out.terms = PolyMul(q, p).terms

\* C6: + and * are associative on canonicalized polynomials: (a + b) + c has
\* the term sequence of a + (b + c), and (a * b) * c that of a * (b * c).
C6_Associative ==
    /\ pc = "added3" => out.terms = PolyAdd(p, PolyAdd(q, r)).terms
    /\ pc = "multiplied3" => out.terms = PolyMul(p, PolyMul(q, r)).terms

C6_Witness ==
    /\ pc = "multiplied3"
    /\ Len(p.terms) = 2 /\ Len(q.terms) = 2 /\ Len(r.terms) = 2
    /\ p # q /\ q # r
    /\ Len(out.terms) >= 3
    /\ out.terms = PolyMul(p, PolyMul(q, r)).terms

\* C7: after simplify and in the result of + - *, the term list is not empty
\* and holds no zero coefficient, unless it is the single zero term with no
\* variables; simplify of an empty term list is that single zero term.
C7_NoEmptyNoZeroTerm ==
    (pc \in {"simplified", "added", "subtracted", "multiplied"}) =>
        /\ out.terms # <<>>
        /\ \/ out.terms = <<Const(RInt(0))>>
           \/ \A i \in 1..Len(out.terms) : out.terms[i].coefficient # RInt(0)
        /\ (pc = "simplified" /\ p.terms = <<>>) => out.terms = <<Const(RInt(0))>>

C7_Witness ==
    /\ pc = "subtracted"
    /\ Len(p.terms) = 2
    /\ p.terms[1].coefficient # RInt(0)
    /\ out.terms = <<Const(RInt(0))>>

\* The sum of the degrees the list vs gives to the name n.
RECURSIVE DegSum(_, _)
DegSum(vs, n) ==
    IF vs = <<>> THEN RInt(0)
    ELSE RAdd(IF Head(vs).name = n THEN Head(vs).degree ELSE RInt(0),
              DegSum(Tail(vs), n))

Names == {1, 2, 3}

\* C8: after simplify every term's variables are sorted by name with no name
\* twice and no degree 0, and a name's degree is the sum of the degrees the
\* input term gave it.
C8_VariablesCanonical ==
    Simplified =>
        /\ \A i \in 1..Len(out.terms) :
             LET vs == out.terms[i].variables
             IN  /\ \A j \in 1..Len(vs) - 1 : vs[j].name < vs[j + 1].name
                 /\ \A j \in 1..Len(vs) : vs[j].degree # RInt(0)
        /\ (pc = "simplified" /\ p.degree = One) =>
             \A i \in 1..Len(out.terms) :
               \/ out.terms = <<Const(RInt(0))>>
               \/ \E k \in 1..Len(p.terms) :
                    \A n \in Names :
                      DegSum(out.terms[i].variables, n) = DegSum(p.terms[k].variables, n)

C8_Witness ==
    /\ pc = "simplified"
    /\ p.degree = One
    /\ \E k \in 1..Len(p.terms) : p.terms[k].variables = <<X(One), X(One)>>
    /\ \E k \in 1..Len(p.terms) : p.terms[k].variables = <<Y(One), X(One)>>
    /\ \E i \in 1..Len(out.terms) : out.terms[i].variables = <<X(RInt(2))>>
    /\ \E i \in 1..Len(out.terms) : out.terms[i].variables = <<X(One), Y(One)>>

RECURSIVE SumCoefs(_)
SumCoefs(ts) ==
    IF ts = <<>> THEN RInt(0) ELSE RAdd(Head(ts).coefficient, SumCoefs(Tail(ts)))

\* The terms of a whose merged variables are vs.
LikeTerms(a, vs) ==
    SelectSeq(a.terms, LAMBDA t : \A n \in Names : DegSum(t.variables, n) = DegSum(vs, n))

\* C9: after simplify the terms are strictly ordered, by descending maximum
\* degree and then by ascending variable sequence, so no two terms have the
\* same variables; a term's coefficient is the sum of its like terms'.
C9_TermsStrictlyOrdered ==
    Simplified =>
        /\ \A i \in 1..Len(out.terms) - 1 :
             LET a == out.terms[i]
                 b == out.terms[i + 1]
             IN  \/ RLt(max_degree(b), max_degree(a))
                 \/ /\ max_degree(a) = max_degree(b)
                    /\ VarsCmp(a.variables, b.variables) < 0
        /\ (pc = "simplified" /\ p.degree = One /\ out.terms # <<Const(RInt(0))>>) =>
             \A i \in 1..Len(out.terms) :
               out.terms[i].coefficient = SumCoefs(LikeTerms(p, out.terms[i].variables))

C9_Witness ==
    /\ pc = "simplified"
    /\ p.degree = One
    /\ Len(p.terms) = 2 /\ Len(out.terms) = 2
    /\ max_degree(out.terms[1]) = max_degree(out.terms[2])
    /\ out.terms[1].variables = p.terms[2].variables

\* a * m of the linear polynomial a*x*m + b: its first term without x.
LinearCoefficient(a) ==
    Poly(<<[a.terms[1] EXCEPT !.variables = SelectSeq(@, LAMBDA v : v.name # 1)]>>)

\* -b of the linear polynomial a*x*m + b: the other terms, negated.
LinearMinusB(a) == Negated(Poly(Tail(a.terms)))

\* C10: for the linear polynomial a*x*m + b, roots returns exactly one ratio
\* and it equals (-b) / (a*m): root.numerator * (a*m) has the terms of
\* (-b) * root.denominator.
C10_LinearRoot ==
    (pc = "rooted" /\ p \in LinearInputs) =>
        /\ Len(out) = 1
        /\ PolyMul(out[1].numerator, LinearCoefficient(p)).terms
             = PolyMul(LinearMinusB(p), out[1].denominator).terms

\* roots() of a three-term quadratic returned: it did not panic.
QuadraticReturns == p \in QuadraticInputs => pc # "panic"

\* The sum and the product of the two roots returned, as PolyRatio + and *
\* compute them.
RootSum == RatioOp("add", out[1], out[2])

RootProduct == RatioOp("mul", out[1], out[2])

\* n / d has the value of the ratio x: x.numerator * d = n * x.denominator.
SameValue(x, n, d) ==
    PolyMul(x.numerator, d).terms = PolyMul(n, x.denominator).terms

\* C11: Vieta sum: for a*x^2 + b*x + c, roots returns two ratios, whatever
\* the sign or squareness of the discriminant, and their sum is -b / a.
C11_VietaSum ==
    /\ QuadraticReturns
    /\ (pc = "rooted" /\ p \in QuadraticInputs) =>
          /\ Len(out) = 2
          /\ ~RootSum.panics
          /\ SameValue(RootSum.ratio,
                       Poly(<<Const(RNeg(p.terms[2].coefficient))>>),
                       Poly(<<Const(p.terms[1].coefficient)>>))

\* C12: Vieta product: for a*x^2 + b*x + c, where c may hold other variables,
\* roots returns two ratios and their product is c / a.
C12_VietaProduct ==
    /\ QuadraticReturns
    /\ (pc = "rooted" /\ p \in QuadraticInputs) =>
          /\ Len(out) = 2
          /\ ~RootProduct.panics
          /\ SameValue(RootProduct.ratio,
                       simplify(Poly(<<p.terms[3]>>)),
                       Poly(<<Const(p.terms[1].coefficient)>>))

\* C14: root count by degree: roots returns one ratio when degree() is 1 and
\* two when it is 2, whatever the number of terms, and for every other degree
\* it fails as unsupported and returns nothing.
C14_RootCountByDegree ==
    /\ pc = "rooted" =>
          \/ degree(p) = One /\ Len(out) = 1
          \/ degree(p) = RInt(2) /\ Len(out) = 2
    /\ pc = "unsupported" => degree(p) \notin {One, RInt(2)}
    /\ pc = "panic" => degree(p) \notin {One, RInt(2)}

\* C13: zero-denominator sentinel: for every ratio whose denominator
\* simplifies to the zero polynomial, 0/0 and the quotients by a zero ratio
\* included, simplify does not panic and as_string returns exactly
\* "ERROR: Division by zero!".
C13_ZeroDenominatorSentinel ==
    /\ pc # "panic"
    /\ pc = "rendered" => out = "ERROR: Division by zero!"

\* out.terms is in the order of sort_terms: descending maximum degree, then
\* ascending variable sequence.
TermsOrdered ==
    \A i \in 1..Len(out.terms) - 1 :
        \/ RLt(max_degree(out.terms[i + 1]), max_degree(out.terms[i]))
        \/ /\ max_degree(out.terms[i]) = max_degree(out.terms[i + 1])
           /\ VarsCmp(out.terms[i].variables, out.terms[i + 1].variables) < 0

\* C15: Scenario A: (x + 2y + 3z) with outer exponent 3, plus a + 2b + 3c^4,
\* is the eight-term sum, its terms ordered by descending maximum degree and
\* then by variable sequence.
C15_ScenarioA ==
    (pc = "added" /\ p = ScenarioA1 /\ q = ScenarioA2) =>
        /\ Len(out.terms) = 8
        /\ TermsOrdered

\* C16: Polynomial equality compares canonical forms: two polynomials whose
\* simplified forms have the same term sequence compare equal, whatever the
\* order, the unmerged like terms or the zero terms of their stored lists.
C16_EqualityOnCanonicalForms ==
    (pc = "compared" /\ simplify(p).terms = simplify(q).terms) => out = TRUE

\* The number of positions of vs that hold the variable v.
VarCount(vs, v) == Cardinality({i \in 1..Len(vs) : vs[i] = v})

\* vs and ws hold the same multiset of variables (name, degree).
SameVariables(vs, ws) ==
    /\ Len(vs) = Len(ws)
    /\ \A i \in 1..Len(vs) : VarCount(vs, vs[i]) = VarCount(ws, vs[i])

\* C17: Term equality is independent of input order: two terms with the same
\* coefficient and the same multiset of variables compare equal for every
\* ordering of their variable lists, a name repeated with different degrees
\* included.
C17_TermEqualityOrderFree ==
    (/\ pc = "terms_compared"
     /\ p.terms[1].coefficient = q.terms[1].coefficient
     /\ SameVariables(p.terms[1].variables, q.terms[1].variables)) => out = TRUE

\* C18: Polynomial / Polynomial is total: for a nonzero divisor the long
\* division does not panic and its loop ends, here within MaxDivIter
\* iterations, after which a PolyRatio is returned.
C18_DivisionTotal ==
    /\ pc # "panic"
    /\ (pc = "dividing" /\ DivLoopCond) => iter < MaxDivIter

\* The variable named n has a positive degree in every term of a.
InEveryTerm(a, n) ==
    \A i \in 1..Len(a.terms) :
        \E j \in 1..Len(a.terms[i].variables) :
            /\ a.terms[i].variables[j].name = n
            /\ RLt(RInt(0), a.terms[i].variables[j].degree)

\* C19: after PolyRatio.simplify of a ratio with nonzero numerator and
\* denominator the shared monomial factor is cancelled: no variable has a
\* positive degree in every term of the numerator and of the denominator.
C19_SharedMonomialCancelled ==
    (pc = "ratio_simplified" /\ p # Zero /\ q # Zero) =>
        \A n \in Names : ~(InEveryTerm(out.numerator, n) /\ InEveryTerm(out.denominator, n))

\* C20: zero dividend: when the dividend simplifies to the zero polynomial,
\* a / b returns 0 / 1, the numerator the single zero term and the
\* denominator the constant 1, for a nonzero divisor of any degree.
C20_ZeroDividend ==
    (pc = "divided" /\ simplify(p) = Zero) => out = From(Zero)

\* C21: Term.pow(q) raises exactly when the result is exact: for an integer
\* coefficient c and a rational q with c^q an exact rational (negative integer
\* q included, 2^(-1) = 1/2), pow returns, the result has coefficient c^q and
\* every variable degree multiplied by q.
C21_PowExactRational ==
    (/\ pc \in {"powered", "panic"}
     /\ RIsInt(p.terms[1].coefficient)
     /\ PowExact(p.terms[1].coefficient, p.degree)
     /\ ~(p.terms[1].coefficient[1] = 0 /\ p.degree[1] < 0))
    => /\ pc = "powered"
       /\ out.coefficient = RPow(p.terms[1].coefficient, p.degree)
       /\ out.variables =
            [i \in 1..Len(p.terms[1].variables) |->
               [p.terms[1].variables[i] EXCEPT !.degree = RMul(@, p.degree)]]

\* The base b multiplied by itself to n factors, n >= 1.
RECURSIVE PowerOf(_, _)
PowerOf(b, n) == IF n <= 1 THEN simplify(b) ELSE PolyMul(PowerOf(b, n - 1), b)

\* C22: integer outer power of a sum: simplify on a polynomial with two or
\* more terms and an integer outer exponent n >= 2 yields the canonical form of
\* the base multiplied by itself to n factors, for every such n.
C22_IntegerOuterPower ==
    pc = "raised" => out = PowerOf(Poly(p.terms), p.degree[1])

\* The name n occurs in every term of a.
NameInEveryTerm(a, n) ==
    \A i \in 1..Len(a.terms) :
        \E j \in 1..Len(a.terms[i].variables) : a.terms[i].variables[j].name = n

\* a has a term, and no single variable name occurs in every term of a.
NoCommonVariable(a) == a.terms # <<>> /\ \A n \in Names : ~NameInEveryTerm(a, n)

\* The greatest g that divides the numerator of every coefficient of a; 0 when
\* every coefficient is 0.
NumeratorGcd(a) ==
    LET ns == {Abs(a.terms[i].coefficient[1]) : i \in 1..Len(a.terms)}
        ds == {d \in 1..(MaxCoef + 4) : \A n \in ns : n % d = 0}
    IN  IF ns = {0} THEN 0 ELSE CHOOSE d \in ds : \A e \in ds : e <= d

C24_LeadingTerm ==
    pc = "led" =>
        \E i \in 1..Len(p.terms) :
            /\ out = p.terms[i]
            /\ max_degree(out) = degree(p)
            /\ \A j \in (i + 1)..Len(p.terms) : max_degree(p.terms[j]) # degree(p)

\* The names the bindings in q assign.
BoundNames == {q[i][1] : i \in 1..Len(q)}

\* No term of out has a variable with a bound name.
BoundRemoved ==
    \A i \in 1..Len(out.terms) :
        \A j \in 1..Len(out.terms[i].variables) :
            out.terms[i].variables[j].name \notin BoundNames

\* For a p of one term that is not evaluated to 0: every name that is not
\* bound has in out the sum of the degrees p gave it.
UnboundKept ==
    (Len(p.terms) = 1 /\ out # Zero) =>
        \A n \in Names \ BoundNames :
            DegSum(out.terms[1].variables, n) = DegSum(p.terms[1].variables, n)

\* C25: Polynomial.evaluate(bindings) removes exactly the bound variables:
\* afterwards no term has a variable whose name is bound, every variable that
\* is not bound keeps its name and merged degree, the polynomial is in
\* canonical form, and with empty bindings the result has the terms of the
\* simplified input.
C25_EvaluateRemovesBound ==
    pc = "evaluated" =>
        /\ BoundRemoved
        /\ UnboundKept
        /\ out = simplify(out)
        /\ q = <<>> => out.terms = simplify(p).terms

\* The root of the linear polynomial c, read leading term first: -(the terms
\* after the first) / (the coefficient of the first).
LinearRootOf(c) ==
    RatioOp("div",
            RatioOp("mul", From(Poly(Tail(c.terms))), K(RInt(-1))).ratio,
            K(c.terms[1].coefficient)).ratio

\* C26: roots reads the coefficients from the canonical, leading-first form:
\* a, b and c are the coefficients of the terms of the simplified polynomial
\* in its order, whatever the order the terms are stored in, so that 3x + 2
\* and 2 + 3x have the same root.
C26_RootsReadCanonicalForm ==
    /\ pc = "linear" =>
         /\ loc.a = simplify(p).terms[1].coefficient
         /\ loc.rest = Poly(Tail(simplify(p).terms))
    /\ pc = "quadratic" =>
         /\ loc.a = simplify(p).terms[1].coefficient
         /\ loc.b = simplify(p).terms[2].coefficient
         /\ loc.c = simplify(p).terms[3].coefficient
    /\ (pc = "rooted" /\ degree(p) = One) => out = <<LinearRootOf(simplify(p))>>

\* C27: Polynomial / Polynomial with a divisor that canonicalizes to the zero
\* polynomial raises no fatal error: for every dividend the call returns, and
\* the ratio it returns renders as "ERROR: Division by zero!".
C27_DivisionByZeroSentinel ==
    pc \in {"panic", "rendered"} =>
        /\ pc = "rendered"
        /\ out = "ERROR: Division by zero!"

\* C28: PolyRatio.simplify preserves the value of the rational function: for
\* every ratio N/D with nonzero D and outer exponents 1, simplify returns and
\* the simplified n/d satisfies n * D = N * d as canonical polynomials.
C28_RatioValuePreserved ==
    pc \in {"ratio_simplified", "panic"} =>
        /\ pc = "ratio_simplified"
        /\ PolyMul(out.numerator, q) = PolyMul(p, out.denominator)

\* A nonzero numerator over a denominator with a negative power: simplify
\* changed both sides and the two are not equal.
C28_Witness ==
    /\ pc = "ratio_simplified"
    /\ simplify(p) # Zero
    /\ VarsToMove(simplify(q)) # <<>>
    /\ out.numerator # simplify(p)
    /\ out.denominator # simplify(q)
    /\ out.numerator # out.denominator

\* The value of the first binding of the name n in the list values, <<>>
\* when n has no binding.
ValueUsed(values, n) ==
    LET I == {i \in 1..Len(values) : values[i][1] = n}
    IN  IF I = {} THEN <<>> ELSE values[CHOOSE i \in I : \A j \in I : i <= j][2]

\* The bindings of values that are the first of their name.
FirstOnly(values) ==
    SelectSeq([i \in 1..Len(values) |-> <<values[i], i>>],
              LAMBDA b : \A j \in 1..(b[2] - 1) : values[j][1] # b[1][1])

\* The list of FirstOnly without the indices.
FirstBindings(values) ==
    [i \in 1..Len(FirstOnly(values)) |-> FirstOnly(values)[i][1]]

\* C29: bindings are first-match: the polynomial printed is the line evaluated
\* with the first binding of each name alone, and, the driver appending every
\* assignment to the end of the list, a name that has a value keeps it through
\* every later assignment.
C29_FirstBindingWins ==
    /\ [](pc = "printed" => out = evaluate(p, FirstBindings(q)))
    /\ [][pc # "start" =>
            \A n \in Names :
                ValueUsed(q, n) # <<>> => ValueUsed(q', n) = ValueUsed(q, n)]_vars

\* x is assigned twice with different values, and the line x is printed as
\* the first of them.
C29_Witness ==
    /\ pc = "printed"
    /\ Len(q) = 2
    /\ q[1][1] = 1 /\ q[2][1] = 1
    /\ q[1][2] # q[2][2]
    /\ p = Poly(<<Monic(One, <<X(One)>>)>>)
    /\ out = Poly(<<Const(q[1][2])>>)

====
